---- MODULE Spec2Model ----
(***************************************************************************)
(* A model of amass/core/service.go: BaseAmassService, the lifecycle gate, *)
(* request queue and activity mark that every amass service embeds.        *)
(*                                                                         *)
(* Goroutines (Threads) call the exported methods.  Every method that      *)
(* takes the embedded sync.Mutex is two steps: Lock (the goroutine waits   *)
(* until the mutex is free) and the body, which ends with the deferred     *)
(* Unlock.  Start and Stop are sequences of such calls with the variant's  *)
(* hook in between, run without the mutex, so other goroutines interleave. *)
(* The hooks are bas.service's: the embedding variant's code, of which the *)
(* source holds the defaults only; a hook is modelled by what it may do    *)
(* with the service (call SetStarted / SetStopped or not, return nil or an *)
(* error), the default (nothing, nil) being one of the choices.            *)
(***************************************************************************)
EXTENDS Integers, Sequences, FiniteSets, TLC

\* ---------------------------------------------------------------- bounds
Threads == {1, 2}          \* goroutines calling the service
Waiters == {1, 2}          \* goroutines receiving from Quit()
MaxCalls == 3              \* calls begun in one behaviour of Spec
MaxQuitCalls == 2          \* calls begun in one behaviour of QuitSpec
MaxLiveCalls == 2          \* calls begun in one behaviour of LiveSpec
MaxSend == 3               \* items one producer sends in QueueSpec
MaxObs == 2                \* receives one waiter makes from Quit()
MaxNow == 6                \* clock ticks, of one second, in ClockSpec

\* ------------------------------------------------------ program constants
Window == 5                \* 5*time.Second, in ticks of one second
ZeroTime == 0 - 1000       \* the zero time.Time of a fresh struct: far in the past

VARIABLES
    started,    \* bas.started
    stopped,    \* bas.stopped
    queue,      \* bas.queue
    active,     \* bas.active
    quit,       \* bas.quit: TRUE once closed
    pause,      \* bas.pause: number of values sent on it
    resume,     \* bas.resume: number of values sent on it
    mutex,      \* the embedded sync.Mutex: 0 when free, else its holder
    now,        \* time.Now()
    pc,         \* pc[t]: where goroutine t is in its call
    req,        \* req[t]: the argument of the SendRequest t is in
    herr,       \* herr[t]: what the hook returned to the Start / Stop t is in
    ret,        \* ret[t]: the last call t completed and its result
    ncalls,     \* calls begun
    log,        \* the lifecycle calls that ended, in that order
    hooks,      \* hooks[h]: invocations of hook h
    closes,     \* close(bas.quit) executed on the open channel
    sent,       \* the items appended to the queue, in that order
    received,   \* the items NextRequest returned, in that order
    wpc,        \* wpc[w]: where waiter w is
    wobs        \* wobs[w]: receives from Quit() that returned

service == <<started, stopped, queue, active, quit, pause, resume>>
history == <<ncalls, log, hooks, closes, sent, received>>
waiters == <<wpc, wobs>>
vars == <<started, stopped, queue, active, quit, pause, resume, mutex, now,
          pc, req, herr, ret, ncalls, log, hooks, closes, sent, received,
          wpc, wobs>>

NoReq == <<0, 0>>          \* the nil *AmassRequest
Items == Threads \X (1..(MaxSend + 1))
Nil == "nil"
HookError == "HookError"
AlreadyStarted == "AlreadyStarted"
AlreadyStopped == "AlreadyStopped"
HookNames == {"OnStart", "OnStop", "OnPause", "OnResume"}

\* NewBaseAmassService
Init ==
    /\ started = FALSE
    /\ stopped = FALSE
    /\ queue = <<>>
    /\ active = ZeroTime
    /\ quit = FALSE
    /\ pause = 0
    /\ resume = 0
    /\ mutex = 0
    /\ now = 0
    /\ pc = [t \in Threads |-> "idle"]
    /\ req = [t \in Threads |-> NoReq]
    /\ herr = [t \in Threads |-> Nil]
    /\ ret = [t \in Threads |-> [op |-> "none", val |-> Nil]]
    /\ ncalls = 0
    /\ log = <<>>
    /\ hooks = [h \in HookNames |-> 0]
    /\ closes = 0
    /\ sent = <<>>
    /\ received = <<>>
    /\ wpc = [w \in Waiters |-> "idle"]
    /\ wobs = [w \in Waiters |-> 0]

\* ---------------------------------------------------------------- helpers
Goto(t, l) == pc' = [pc EXCEPT ![t] = l]
Returns(t, o, v) == ret' = [ret EXCEPT ![t] = [op |-> o, val |-> v]]
Logged(t, o, v) == log' = Append(log, [t |-> t, op |-> o, ret |-> v])
Invoked(h) == hooks' = [hooks EXCEPT ![h] = @ + 1]

\* The labels at which a goroutine is in a method that takes the mutex.
LockedLabels ==
    {"Start_IsStarted", "Start_IsStopped", "OnStart_SetStarted",
     "Stop_IsStopped", "OnStop_SetStopped",
     "OnStart_SendRequest", "OnStop_SendRequest",
     "NumOfRequests", "NextRequest", "SendRequest", "IsActive", "SetActive",
     "IsStarted", "SetStarted", "IsStopped", "SetStopped"}

\* bas.Lock(): blocks while another goroutine holds the mutex.
Lock(t) ==
    /\ pc[t] \in LockedLabels
    /\ mutex = 0
    /\ mutex' = t
    /\ UNCHANGED <<service, now, pc, req, herr, ret, history, waiters>>

\* In the body of the method at label l, the mutex held; the deferred
\* bas.Unlock() runs as the body returns.
InBody(t, l) == pc[t] = l /\ mutex = t

\* A method that returns without releasing the mutex.
UnlockForgotten == mutex' = mutex

Unlock == mutex' = 0

\* A goroutine begins a call.
Call(t, l) ==
    /\ pc[t] = "idle"
    /\ Goto(t, l)
    /\ ncalls' = ncalls + 1


\* ------------------------------------------------------- the request queue
\* A SendRequest that puts the request at the head of the queue.
EnqueueAtHead(q, r) == <<r>> \o q

\* A SendRequest that drops the request once the service is stopped.
EnqueueUnlessStopped(q, r) == IF stopped \/ quit THEN q ELSE Append(q, r)

\* SendRequest: append(bas.queue, req)
Enqueue(q, r) == Append(q, r)

\* NextRequest: the request it returns, nil on an empty queue
First(q) == IF Len(q) = 0 THEN NoReq ELSE q[1]

\* A NextRequest that leaves the request it returns in the queue.
RestKeepsFirst(q) == q

\* A NextRequest that does not reset the queue as it takes the last request.
RestKeepsLast(q) == IF Len(q) > 1 THEN SubSeq(q, 2, Len(q)) ELSE q

\* NextRequest: the queue it leaves
Rest(q) ==
    IF Len(q) = 0 THEN q
    ELSE IF Len(q) > 1 THEN SubSeq(q, 2, Len(q)) ELSE <<>>

\* The requests of producer p in sequence s, in their order.
Of(p, s) == SelectSeq(s, LAMBDA r : r[1] = p)

\* Producer t sends its requests <<t, 1>>, <<t, 2>>, ... in this order.
SendRequest(t) ==
    /\ Len(Of(t, sent)) < MaxSend
    /\ Call(t, "SendRequest")
    /\ req' = [req EXCEPT ![t] = <<t, Len(Of(t, sent)) + 1>>]
    /\ UNCHANGED <<service, mutex, now, herr, ret, log, hooks, closes, sent,
                   received, waiters>>

SendRequest_body(t) ==
    /\ InBody(t, "SendRequest")
    /\ queue' = Enqueue(queue, req[t])
    /\ sent' = Append(sent, req[t])
    /\ Unlock
    /\ Goto(t, "idle")
    /\ Returns(t, "SendRequest", Nil)
    /\ req' = [req EXCEPT ![t] = NoReq]
    /\ UNCHANGED <<started, stopped, active, quit, pause, resume, now, herr,
                   ncalls, log, hooks, closes, received, waiters>>

NextRequest(t) ==
    /\ Call(t, "NextRequest")
    /\ UNCHANGED <<service, mutex, now, req, herr, ret, log, hooks, closes,
                   sent, received, waiters>>

NextRequest_body(t) ==
    /\ InBody(t, "NextRequest")
    /\ queue' = Rest(queue)
    /\ received' = IF First(queue) = NoReq THEN received
                   ELSE Append(received, First(queue))
    /\ Unlock
    /\ Goto(t, "idle")
    /\ Returns(t, "NextRequest", First(queue))
    /\ UNCHANGED <<started, stopped, active, quit, pause, resume, now, req,
                   herr, ncalls, log, hooks, closes, sent, waiters>>

NumOfRequests(t) ==
    /\ Call(t, "NumOfRequests")
    /\ UNCHANGED <<service, mutex, now, req, herr, ret, log, hooks, closes,
                   sent, received, waiters>>

NumOfRequests_body(t) ==
    /\ InBody(t, "NumOfRequests")
    /\ Unlock
    /\ Goto(t, "idle")
    /\ Returns(t, "NumOfRequests", Len(queue))
    /\ UNCHANGED <<service, now, req, herr, history, waiters>>

\* -------------------------------------------------------- the activity mark
\* An IsActive that is false from the full window on.
ActiveStrict(n, a) == n - a < Window

\* An IsActive that takes a service for active until its first SetActive.
ActiveUntilMarked(n, a) == a = ZeroTime \/ ~(n - a > Window)

\* IsActive: time.Now().Sub(bas.active) > 5*time.Second gives false
Active(n, a) == ~(n - a > Window)

IsActive(t) ==
    /\ Call(t, "IsActive")
    /\ UNCHANGED <<service, mutex, now, req, herr, ret, log, hooks, closes,
                   sent, received, waiters>>

IsActive_body(t) ==
    /\ InBody(t, "IsActive")
    /\ Unlock
    /\ Goto(t, "idle")
    /\ Returns(t, "IsActive", Active(now, active))
    /\ UNCHANGED <<service, now, req, herr, history, waiters>>

SetActive(t) ==
    /\ Call(t, "SetActive")
    /\ UNCHANGED <<service, mutex, now, req, herr, ret, log, hooks, closes,
                   sent, received, waiters>>

SetActive_body(t) ==
    /\ InBody(t, "SetActive")
    /\ active' = now
    /\ Unlock
    /\ Goto(t, "idle")
    /\ Returns(t, "SetActive", Nil)
    /\ UNCHANGED <<started, stopped, queue, quit, pause, resume, now, req,
                   herr, history, waiters>>

\* time passes
Tick ==
    /\ now < MaxNow
    /\ now' = now + 1
    /\ UNCHANGED <<service, mutex, pc, req, herr, ret, history, waiters>>


\* ------------------------------------------------------ the lifecycle flags
\* A SetStarted that flips the flag.
StartedFlipped(s) == ~s

\* SetStarted: bas.started = true
StartedSet(s) == TRUE

\* SetStopped: bas.stopped = true
StoppedSet(s) == TRUE

IsStarted(t) ==
    /\ Call(t, "IsStarted")
    /\ UNCHANGED <<service, mutex, now, req, herr, ret, log, hooks, closes,
                   sent, received, waiters>>

IsStarted_body(t) ==
    /\ InBody(t, "IsStarted")
    /\ Unlock
    /\ Goto(t, "idle")
    /\ Returns(t, "IsStarted", started)
    /\ UNCHANGED <<service, now, req, herr, history, waiters>>

SetStarted(t) ==
    /\ Call(t, "SetStarted")
    /\ UNCHANGED <<service, mutex, now, req, herr, ret, log, hooks, closes,
                   sent, received, waiters>>

SetStarted_body(t) ==
    /\ InBody(t, "SetStarted")
    /\ started' = StartedSet(started)
    /\ Unlock
    /\ Goto(t, "idle")
    /\ Returns(t, "SetStarted", Nil)
    /\ UNCHANGED <<stopped, queue, active, quit, pause, resume, now, req,
                   herr, history, waiters>>

IsStopped(t) ==
    /\ Call(t, "IsStopped")
    /\ UNCHANGED <<service, mutex, now, req, herr, ret, log, hooks, closes,
                   sent, received, waiters>>

IsStopped_body(t) ==
    /\ InBody(t, "IsStopped")
    /\ Unlock
    /\ Goto(t, "idle")
    /\ Returns(t, "IsStopped", stopped)
    /\ UNCHANGED <<service, now, req, herr, history, waiters>>

\* A SetStopped that also withdraws the started flag.
SetStoppedClearsStarted(t) ==
    /\ InBody(t, "SetStopped")
    /\ stopped' = StoppedSet(stopped)
    /\ started' = FALSE
    /\ Unlock
    /\ Goto(t, "idle")
    /\ Returns(t, "SetStopped", Nil)
    /\ UNCHANGED <<queue, active, quit, pause, resume, now, req,
                   herr, history, waiters>>

SetStopped(t) ==
    /\ Call(t, "SetStopped")
    /\ UNCHANGED <<service, mutex, now, req, herr, ret, log, hooks, closes,
                   sent, received, waiters>>

SetStopped_body(t) ==
    /\ InBody(t, "SetStopped")
    /\ stopped' = StoppedSet(stopped)
    /\ Unlock
    /\ Goto(t, "idle")
    /\ Returns(t, "SetStopped", Nil)
    /\ UNCHANGED <<started, queue, active, quit, pause, resume, now, req,
                   herr, history, waiters>>

\* ------------------------------------------------------------------- hooks
\* What a hook returns: nil (the defaults of BaseAmassService always do) or
\* the variant's error.
HookResults == {Nil, HookError}

\* A call that ends: its result goes to the caller and to the log.
Ends(t, o, v) ==
    /\ Goto(t, "idle")
    /\ Returns(t, o, v)
    /\ Logged(t, o, v)

\* ------------------------------------------------------------------- Start
Start(t) ==
    /\ Call(t, "Start_IsStarted")
    /\ UNCHANGED <<service, mutex, now, req, herr, ret, log, hooks, closes,
                   sent, received, waiters>>

\* if bas.IsStarted() { return errors.New("... has already been started") }
Start_IsStarted(t) ==
    /\ InBody(t, "Start_IsStarted")
    /\ Unlock
    /\ IF started
       THEN Ends(t, "Start", AlreadyStarted)
       ELSE Goto(t, "Start_IsStopped") /\ UNCHANGED <<ret, log>>
    /\ UNCHANGED <<service, now, req, herr, ncalls, hooks, closes, sent,
                   received, waiters>>

\* else if bas.IsStopped() { return errors.New("... has been stopped") }
Start_IsStopped(t) ==
    /\ InBody(t, "Start_IsStopped")
    /\ Unlock
    /\ IF stopped
       THEN Ends(t, "Start", AlreadyStopped)
       ELSE Goto(t, "Start_OnStart") /\ UNCHANGED <<ret, log>>
    /\ UNCHANGED <<service, now, req, herr, ncalls, hooks, closes, sent,
                   received, waiters>>

\* return bas.service.OnStart(): the hook runs; it calls SetStarted or not.
Start_OnStart(t) ==
    /\ pc[t] = "Start_OnStart"
    /\ Invoked("OnStart")
    /\ \E marks \in BOOLEAN, e \in HookResults :
          IF marks
          THEN /\ herr' = [herr EXCEPT ![t] = e]
               /\ Goto(t, "OnStart_SetStarted")
               /\ UNCHANGED <<ret, log>>
          ELSE Ends(t, "Start", e) /\ UNCHANGED herr
    /\ UNCHANGED <<service, mutex, now, req, ncalls, closes, sent, received,
                   waiters>>

\* SetStarted called by the hook, which then returns to Start's caller.
OnStart_SetStarted(t) ==
    /\ InBody(t, "OnStart_SetStarted")
    /\ started' = StartedSet(started)
    /\ Unlock
    /\ Ends(t, "Start", herr[t])
    /\ herr' = [herr EXCEPT ![t] = Nil]
    /\ UNCHANGED <<stopped, queue, active, quit, pause, resume, now, req,
                   ncalls, hooks, closes, sent, received, waiters>>

\* -------------------------------------------------------------------- Stop
Stop(t) ==
    /\ Call(t, "Stop_IsStopped")
    /\ UNCHANGED <<service, mutex, now, req, herr, ret, log, hooks, closes,
                   sent, received, waiters>>

\* if bas.IsStopped() { return errors.New("... has already been stopped") }
Stop_IsStopped(t) ==
    /\ InBody(t, "Stop_IsStopped")
    /\ Unlock
    /\ IF stopped
       THEN Ends(t, "Stop", AlreadyStopped)
       ELSE Goto(t, "Stop_OnStop") /\ UNCHANGED <<ret, log>>
    /\ UNCHANGED <<service, now, req, herr, ncalls, hooks, closes, sent,
                   received, waiters>>

\* err := bas.service.OnStop(): the hook runs; it calls SetStopped or not.
Stop_OnStop(t) ==
    /\ pc[t] = "Stop_OnStop"
    /\ Invoked("OnStop")
    /\ \E marks \in BOOLEAN, e \in HookResults :
          /\ herr' = [herr EXCEPT ![t] = e]
          /\ Goto(t, IF marks THEN "OnStop_SetStopped" ELSE "Stop_close")
    /\ UNCHANGED <<service, mutex, now, req, ret, ncalls, log, closes, sent,
                   received, waiters>>

\* SetStopped called by the hook.
OnStop_SetStopped(t) ==
    /\ InBody(t, "OnStop_SetStopped")
    /\ stopped' = StoppedSet(stopped)
    /\ Unlock
    /\ Goto(t, "Stop_close")
    /\ UNCHANGED <<started, queue, active, quit, pause, resume, now, req,
                   herr, ret, history, waiters>>

\* A Stop that leaves the channel open.
ClosedNever(q, e) == q

\* A Stop that returns the hook's error before it closes the channel.
ClosedUnlessError(q, e) == q \/ e = Nil

\* err := bas.service.OnStop(); close(bas.quit): the channel after the
\* close, which runs whatever err is
Closed(q, e) == TRUE

\* return err
StopResult(e) == e

\* close(bas.quit); return err.  Closing a closed channel panics: the call
\* never returns, the channel stays closed.
Stop_close(t) ==
    /\ pc[t] = "Stop_close"
    /\ IF quit
       THEN /\ Goto(t, "panicked")
            /\ Logged(t, "Stop", "panic")
            /\ UNCHANGED <<quit, closes, ret>>
       ELSE /\ quit' = Closed(quit, herr[t])
            /\ closes' = closes + 1
            /\ Ends(t, "Stop", StopResult(herr[t]))
    /\ herr' = [herr EXCEPT ![t] = Nil]
    /\ UNCHANGED <<started, stopped, queue, active, pause, resume, mutex,
                   now, req, ncalls, hooks, sent, received, waiters>>

\* ------------------------------------------- hooks that send requests
\* A variant's OnStart / OnStop hands work to the service it belongs to: the
\* hook calls SendRequest, any number of times, before it goes on.  Each is
\* a call begun.
HookLabel(l) ==
    IF l = "Start_OnStart" THEN "OnStart_SendRequest" ELSE "OnStop_SendRequest"

Hook_SendRequest(t) ==
    /\ pc[t] \in {"Start_OnStart", "Stop_OnStop"}
    /\ Len(Of(t, sent)) < MaxSend
    /\ Goto(t, HookLabel(pc[t]))
    /\ ncalls' = ncalls + 1
    /\ req' = [req EXCEPT ![t] = <<t, Len(Of(t, sent)) + 1>>]
    /\ UNCHANGED <<service, mutex, now, herr, ret, log, hooks, closes, sent,
                   received, waiters>>

Hook_SendRequest_body(t) ==
    /\ \/ InBody(t, "OnStart_SendRequest") /\ Goto(t, "Start_OnStart")
       \/ InBody(t, "OnStop_SendRequest") /\ Goto(t, "Stop_OnStop")
    /\ queue' = Enqueue(queue, req[t])
    /\ sent' = Append(sent, req[t])
    /\ Unlock
    /\ req' = [req EXCEPT ![t] = NoReq]
    /\ UNCHANGED <<started, stopped, active, quit, pause, resume, now, herr,
                   ret, ncalls, log, hooks, closes, received, waiters>>

\* ------------------------------------------------------- Pause and Resume
\* A Pause that dispatches to the resume hook.
PauseCallsOnResume(t) ==
    /\ Call(t, "idle")
    /\ Invoked("OnResume")
    /\ \E e \in HookResults :
          Returns(t, "Pause", e) /\ Logged(t, "Pause", e)
    /\ UNCHANGED <<service, mutex, now, req, herr, closes, sent, received,
                   waiters>>

\* return bas.service.OnPause()
Pause(t) ==
    /\ Call(t, "idle")
    /\ Invoked("OnPause")
    /\ \E e \in HookResults :
          Returns(t, "Pause", e) /\ Logged(t, "Pause", e)
    /\ UNCHANGED <<service, mutex, now, req, herr, closes, sent, received,
                   waiters>>

\* return bas.service.OnResume()
Resume(t) ==
    /\ Call(t, "idle")
    /\ Invoked("OnResume")
    /\ \E e \in HookResults :
          Returns(t, "Resume", e) /\ Logged(t, "Resume", e)
    /\ UNCHANGED <<service, mutex, now, req, herr, closes, sent, received,
                   waiters>>

\* ------------------------------------------------------ waiters on Quit()
\* A goroutine begins <-bas.Quit(): it blocks while the channel is open.
Wait(w) ==
    /\ wpc[w] = "idle"
    /\ wobs[w] < MaxObs
    /\ wpc' = [wpc EXCEPT ![w] = IF quit THEN "ready" ELSE "blocked"]
    /\ UNCHANGED <<service, mutex, now, pc, req, herr, ret, history, wobs>>

\* The receive returns: a closed channel is always ready to receive from.
Observe(w) ==
    /\ wpc[w] \in {"ready", "blocked"}
    /\ quit
    /\ wobs' = [wobs EXCEPT ![w] = @ + 1]
    /\ wpc' = [wpc EXCEPT ![w] = "idle"]
    /\ UNCHANGED <<service, mutex, now, pc, req, herr, ret, history>>

\* ------------------------------------------------------- specifications
LifeBegin(t) == Start(t) \/ Stop(t)

LifeStep(t) ==
    \/ Lock(t)
    \/ Start_IsStarted(t) \/ Start_IsStopped(t) \/ Start_OnStart(t)
    \/ OnStart_SetStarted(t)
    \/ Stop_IsStopped(t) \/ Stop_OnStop(t) \/ OnStop_SetStopped(t)
    \/ Stop_close(t)

QueueBegin(t) == SendRequest(t) \/ NextRequest(t)

QueueStep(t) == Lock(t) \/ SendRequest_body(t) \/ NextRequest_body(t)

Begin(t) ==
    \/ LifeBegin(t) \/ Pause(t) \/ Resume(t)
    \/ QueueBegin(t) \/ NumOfRequests(t)
    \/ IsActive(t) \/ SetActive(t)
    \/ IsStarted(t) \/ SetStarted(t) \/ IsStopped(t) \/ SetStopped(t)

Step(t) ==
    \/ LifeStep(t)
    \/ SendRequest_body(t) \/ NextRequest_body(t) \/ NumOfRequests_body(t)
    \/ IsActive_body(t) \/ SetActive_body(t)
    \/ IsStarted_body(t) \/ SetStarted_body(t)
    \/ IsStopped_body(t) \/ SetStopped_body(t)

\* Goroutines calling every method of the service, in any interleaving.
Next ==
    \/ \E t \in Threads : ncalls < MaxCalls /\ Begin(t)
    \/ \E t \in Threads : Step(t)

Spec == Init /\ [][Next]_vars

\* Producers and consumers of the queue alone: calls enough to send every
\* request and to take every one of them out again.
MaxQueueCalls == 2 * Cardinality(Threads) * MaxSend

QueueNext ==
    \/ \E t \in Threads : ncalls < MaxQueueCalls /\ QueueBegin(t)
    \/ \E t \in Threads : QueueStep(t)

QueueSpec == Init /\ [][QueueNext]_vars

\* Goroutines starting and stopping the service while others wait on Quit().
\* The Go scheduler runs every runnable goroutine: a receive that stays
\* possible is made.
QuitNext ==
    \/ \E t \in Threads : ncalls < MaxQuitCalls /\ LifeBegin(t)
    \/ \E t \in Threads : LifeStep(t)
    \/ \E w \in Waiters : Wait(w) \/ Observe(w)

QuitSpec ==
    /\ Init
    /\ [][QuitNext]_vars
    /\ \A w \in Waiters : WF_vars(Observe(w))

\* Goroutines marking and reading the activity of the service as time passes.
ClockBegin(t) == IsActive(t) \/ SetActive(t)

ClockStep(t) == Lock(t) \/ IsActive_body(t) \/ SetActive_body(t)

ClockNext ==
    \/ \E t \in Threads : ncalls < MaxCalls /\ ClockBegin(t)
    \/ \E t \in Threads : ClockStep(t)
    \/ Tick

ClockSpec == Init /\ [][ClockNext]_vars

\* Goroutines calling Start, Stop, Pause, Resume, SendRequest, NextRequest,
\* SetActive and IsActive, the hooks of Start and Stop calling SetStarted,
\* SetStopped and SendRequest on the service.  The Go scheduler runs every
\* runnable goroutine: a goroutine that can take a step takes one.
LiveBegin(t) ==
    \/ LifeBegin(t) \/ Pause(t) \/ Resume(t)
    \/ QueueBegin(t)
    \/ IsActive(t) \/ SetActive(t)
    \/ Hook_SendRequest(t)

LiveStep(t) ==
    \/ LifeStep(t)
    \/ SendRequest_body(t) \/ NextRequest_body(t)
    \/ IsActive_body(t) \/ SetActive_body(t)
    \/ Hook_SendRequest_body(t)

LiveNext ==
    \/ \E t \in Threads : ncalls < MaxLiveCalls /\ LiveBegin(t)
    \/ \E t \in Threads : LiveStep(t)

LiveSpec ==
    /\ Init
    /\ [][LiveNext]_vars
    /\ \A t \in Threads : WF_vars(LiveStep(t))

\* ================================================================ claims
Last(s) == s[Len(s)]
Ops(o) == {i \in 1..Len(log) : log[i].op = o}
NumProducers == Cardinality(Threads)

\* C1. FIFO: the requests NextRequest has returned, followed by the requests
\* still queued, are the requests sent, in the order they were sent: every
\* NextRequest on a non-empty queue returned the earliest request not yet
\* returned, and left the later ones in their order.
FIFO ==
    /\ sent = received \o queue
    /\ \A t \in Threads :
          (ret[t].op = "NextRequest" /\ ret[t].val # NoReq)
             => \E i \in 1..Len(received) :
                   received[i] = ret[t].val /\ sent[i] = ret[t].val

\* C1 witness: a, b, c sent by one producer, then returned by three
\* NextRequest calls as a, b, c.
FIFOWitness ==
    /\ sent = <<<<1, 1>>, <<1, 2>>, <<1, 3>>>>
    /\ received = sent
    /\ queue = <<>>
    /\ ncalls = 6

\* C2. Concurrent safety: no request is returned twice, every request sent
\* is queued or was returned, each producer's requests are returned in the
\* order it sent them, and once every producer has sent its MaxSend requests
\* and the queue is drained, exactly NumProducers * MaxSend were returned.
Drained ==
    /\ queue = <<>>
    /\ \A p \in Threads : Len(Of(p, sent)) = MaxSend /\ pc[p] # "SendRequest"

ConcurrentSafety ==
    /\ \A i, j \in 1..Len(received) : i # j => received[i] # received[j]
    /\ Len(received) + Len(queue) = Len(sent)
    /\ \A r \in Items :
          (\E i \in 1..Len(sent) : sent[i] = r)
             => \/ \E i \in 1..Len(received) : received[i] = r
                \/ \E i \in 1..Len(queue) : queue[i] = r
    /\ \A p \in Threads :
          Of(p, received) = [k \in 1..Len(Of(p, received)) |-> <<p, k>>]
    /\ Drained =>
          /\ Len(received) = NumProducers * MaxSend
          /\ {received[i] : i \in 1..Len(received)} = Threads \X (1..MaxSend)

\* C2 witness: both producers done, the queue drained, and the requests of
\* the two producers interleaved in the order they were returned.
ConcurrentSafetyWitness ==
    /\ Drained
    /\ Len(received) = NumProducers * MaxSend
    /\ received[1] = <<2, 1>>
    /\ received[2] = <<1, 1>>
    /\ received[3] = <<2, 2>>


\* A history of lifecycle calls made one after the other by one goroutine:
\* every call begun has ended and is in the log.
Sequential ==
    /\ ncalls = Len(log)
    /\ \A i \in 1..Len(log) : log[i].t = log[1].t

Refusals == {AlreadyStarted, AlreadyStopped}

\* C3. Start idempotence guard: when Start is called twice in sequence on a
\* freshly constructed service (and the hook reports no error), the first
\* call returns nil, the second one AlreadyStarted or AlreadyStopped, and
\* OnStart was invoked at most once.
StartTwice ==
    (/\ Sequential
     /\ Len(log) = 2
     /\ log[1].op = "Start" /\ log[2].op = "Start"
     /\ log[1].ret # HookError)
       => /\ log[1].ret = Nil
          /\ log[2].ret \in Refusals
          /\ hooks["OnStart"] <= 1

\* C4. Stop idempotence guard: when Stop is called twice in sequence (and
\* the hook reports no error), the first call returns nil, the second one
\* AlreadyStopped; OnStop was invoked once and the quit channel closed once.
StopTwice ==
    (/\ Sequential
     /\ Len(log) = 2
     /\ log[1].op = "Stop" /\ log[2].op = "Stop"
     /\ log[1].ret # HookError)
       => /\ log[1].ret = Nil
          /\ log[2].ret = AlreadyStopped
          /\ hooks["OnStop"] = 1
          /\ closes = 1

\* C5. Quit broadcast and permanence: the quit channel is open as long as
\* no Stop call has begun; it is closed once a Stop call has returned nil; a
\* closed channel stays closed; a waiter receiving from a closed channel can
\* always receive, and every waiter blocked on it is eventually released.
StopLabels ==
    {"Stop_IsStopped", "Stop_OnStop", "OnStop_SetStopped", "Stop_close",
     "panicked"}
StopCalled == Ops("Stop") # {} \/ \E t \in Threads : pc[t] \in StopLabels
StopSucceeded == \E i \in Ops("Stop") : log[i].ret = Nil
Waiting(w) == wpc[w] \in {"ready", "blocked"}

QuitPermanent ==
    /\ [](~StopCalled => ~quit)
    /\ [](StopSucceeded => quit)
    /\ [][quit => quit']_vars
    /\ \A w \in Waiters :
          /\ []((Waiting(w) /\ quit) => ENABLED Observe(w))
          /\ (Waiting(w) /\ quit) ~> (wpc[w] = "idle")

\* C5 witness: Stop has returned nil; one waiter has received from Quit()
\* twice, another that blocked before the close is about to be released.
QuitPermanentWitness ==
    /\ StopSucceeded
    /\ quit
    /\ \E w1, w2 \in Waiters :
          /\ w1 # w2
          /\ wobs[w1] = MaxObs
          /\ wpc[w2] = "blocked"

\* C6. Stop with a failing hook: the step of Stop that follows a hook that
\* returned an error leaves the quit channel closed, and the call, as it
\* returns, returns that error.
StopHookFails ==
    [][\A t \in Threads :
          (pc[t] = "Stop_close" /\ pc'[t] # "Stop_close" /\ herr[t] = HookError)
             => /\ quit'
                /\ pc'[t] = "idle" =>
                      /\ ret'[t] = [op |-> "Stop", val |-> HookError]
                      /\ Last(log') = [t |-> t, op |-> "Stop", ret |-> HookError]]_vars

\* C6 witness: a Stop whose hook failed has returned the error, the channel
\* closed.
StopHookFailsWitness ==
    /\ quit
    /\ closes = 1
    /\ \E i \in Ops("Stop") : log[i].ret = HookError

\* C7. Start on a stopped service: a Start called after the stopped flag was
\* set returns AlreadyStopped, also when the started flag is set, and does
\* not invoke OnStart.
StartOnStopped ==
    (/\ Sequential
     /\ Len(log) >= 2
     /\ Last(log).op = "Start"
     /\ stopped)
       => /\ Last(log).ret = AlreadyStopped
          /\ hooks["OnStart"] =
                Cardinality({i \in Ops("Start") : log[i].ret \notin Refusals})

\* C8. Start marks started: once a Start call has returned nil, the started
\* flag is set.
StartMarksStarted ==
    \A i \in Ops("Start") : log[i].ret = Nil => started

\* C9. Monotonic lifecycle flags: no step resets started or stopped.
MonotonicFlags ==
    [][(started => started') /\ (stopped => stopped')]_vars

\* C9 witness: both flags set, and a Start and a SetStarted made after that.
MonotonicFlagsWitness ==
    /\ started
    /\ stopped
    /\ Len(log) >= 1
    /\ Last(log).op = "Start"
    /\ Last(log).ret = AlreadyStarted
    /\ \E t \in Threads : ret[t].op = "SetStopped"

\* C10. Pause and Resume are pure hook dispatch: a Pause invokes OnPause
\* once and no other hook, a Resume OnResume once and no other hook; the call
\* returns what the hook returned and leaves the flags, the queue, the
\* activity mark and the signals as they were.
Dispatch(o, h) ==
    \A t \in Threads :
       (/\ Len(log') = Len(log) + 1
        /\ Last(log').op = o
        /\ Last(log').t = t)
          => /\ hooks' = [hooks EXCEPT ![h] = @ + 1]
             /\ Last(log').ret \in HookResults
             /\ ret'[t] = [op |-> o, val |-> Last(log').ret]
             /\ pc'[t] = pc[t]
             /\ UNCHANGED <<service, mutex, closes, sent, received>>

PauseResumePure ==
    [][Dispatch("Pause", "OnPause") /\ Dispatch("Resume", "OnResume")]_vars

\* C10 witness: Pause has returned the hook's error on a service that is
\* started and stopped, the quit channel closed.
PauseResumePureWitness ==
    /\ started
    /\ stopped
    /\ quit
    /\ Last(log) = [t |-> 1, op |-> "Pause", ret |-> HookError]
    /\ hooks["OnPause"] = 1

\* C11. Pause and resume signals fire on request: once a Pause call has
\* returned, a value was sent on the pause channel, and once a Resume call
\* has returned, a value was sent on the resume channel.
SignalsFire ==
    /\ Ops("Pause") # {} => pause > 0
    /\ Ops("Resume") # {} => resume > 0

\* C12. Empty queue: a NextRequest that finds every request sent already
\* returned (none was sent, or all were taken out) returns nil and leaves the
\* queue empty; any other NextRequest returns a request, the earliest one
\* not yet returned, also when the queue had been empty before.
Taking(t) == pc[t] = "NextRequest" /\ pc'[t] = "idle"

EmptyQueue ==
    [][\A t \in Threads :
          Taking(t) =>
             /\ ret'[t].op = "NextRequest"
             /\ IF Len(received) = Len(sent)
                THEN /\ ret'[t].val = NoReq
                     /\ queue' = <<>>
                     /\ received' = received
                ELSE /\ ret'[t].val # NoReq
                     /\ ret'[t].val = sent[Len(received) + 1]]_vars

\* C12 witness: one goroutine got nil from NextRequest; the other sent two
\* requests and got the second one back after the queue had been emptied of
\* the first.
EmptyQueueWitness ==
    /\ ret[2] = [op |-> "NextRequest", val |-> NoReq]
    /\ ret[1] = [op |-> "NextRequest", val |-> <<1, 2>>]
    /\ sent = <<<<1, 1>>, <<1, 2>>>>
    /\ received = sent
    /\ queue = <<>>

\* C13. Liveness window, as claimed: IsActive returns true if and only if
\* less than the window has passed since the activity mark.
Reading(t) == pc[t] = "IsActive" /\ pc'[t] = "idle"

ActiveWindowStrict ==
    [][\A t \in Threads :
          Reading(t) => ret'[t].val = (now - active < Window)]_vars

\* C13, amended: IsActive returns true if and only if no more than the
\* window has passed since the activity mark: true right after SetActive and
\* up to the full window, false from the first tick beyond it.
ActiveWindow ==
    [][\A t \in Threads :
          Reading(t) =>
             /\ ret'[t].op = "IsActive"
             /\ ret'[t].val = (now - active <= Window)
             /\ now = active => ret'[t].val
             /\ now - active > Window => ~ret'[t].val]_vars

\* C13 witness: IsActive is reading the mark exactly one window after the
\* SetActive that wrote it.
ActiveWindowWitness ==
    \E t \in Threads :
       /\ InBody(t, "IsActive")
       /\ active >= 0
       /\ now - active = Window

\* C14. Race-free stop: however Stop calls interleave, close(bas.quit) is
\* never executed on the closed channel, at most one Stop call ends other
\* than by AlreadyStopped, and OnStop is invoked at most once.
Panicked == \E i \in Ops("Stop") : log[i].ret = "panic"

RaceFreeStop ==
    /\ ~Panicked
    /\ closes <= 1
    /\ Cardinality({i \in Ops("Stop") : log[i].ret # AlreadyStopped}) <= 1
    /\ hooks["OnStop"] <= 1

\* C15. Quit implies stopped: whenever the quit channel is closed, the
\* stopped flag is set.
QuitImpliesStopped == quit => stopped

\* C16. Race-free start: however Start calls interleave on a fresh service,
\* OnStart is invoked at most once and at most one Start call returns nil.
RaceFreeStart ==
    /\ hooks["OnStart"] <= 1
    /\ Cardinality({i \in Ops("Start") : log[i].ret = Nil}) <= 1

\* C17. No deadlock: the mutex is only ever held by a goroutine inside the
\* body of a locking method, which releases it as it returns; every
\* goroutine waiting for the mutex gets it and every call begun ends (a
\* Stop that closes the closed channel ends by its panic, not by waiting),
\* so that from some point on the mutex is free and no goroutine in a call.
InCall(t) == pc[t] \notin {"idle", "panicked"}
WaitsForMutex(t) == pc[t] \in LockedLabels /\ mutex # t

NoDeadlock ==
    /\ [](mutex # 0 => pc[mutex] \in LockedLabels)
    /\ \A t \in Threads :
          /\ WaitsForMutex(t) ~> (mutex = t)
          /\ InCall(t) ~> ~InCall(t)
    /\ <>[](mutex = 0 /\ \A t \in Threads : ~InCall(t))

\* C17 witness: the hook of one goroutine waits, in SetStarted, SetStopped
\* or SendRequest, for the mutex that the other goroutine holds.
NoDeadlockWitness ==
    \E t, u \in Threads :
       /\ t # u
       /\ pc[t] \in {"OnStart_SetStarted", "OnStop_SetStopped",
                     "OnStart_SendRequest", "OnStop_SendRequest"}
       /\ mutex = u

\* C18. Queue operations are not gated by the lifecycle: whatever the flags
\* and the quit channel are, SendRequest appends its request at the tail and
\* NextRequest takes the oldest request out and returns it; no step of Start
\* or Stop changes the queue.
Sending(t) == pc[t] = "SendRequest" /\ pc'[t] = "idle"
LifeLabels ==
    {"Start_IsStarted", "Start_IsStopped", "Start_OnStart",
     "OnStart_SetStarted", "Stop_IsStopped", "Stop_OnStop",
     "OnStop_SetStopped", "Stop_close"}
LifeMoves(t) == pc'[t] # pc[t] /\ (pc[t] \in LifeLabels \/ pc'[t] \in LifeLabels)

QueueNotGated ==
    [][\A t \in Threads :
          /\ Sending(t) => queue' = Append(queue, req[t])
          /\ (Taking(t) /\ queue # <<>>) =>
                /\ ret'[t].val = Head(queue)
                /\ queue' = Tail(queue)
          /\ LifeMoves(t) => queue' = queue]_vars

\* C18 witness: a request sent by the goroutine that also stopped the
\* service is returned by NextRequest, the quit channel closed and the
\* stopped flag set.
QueueNotGatedWitness ==
    /\ quit
    /\ stopped
    /\ \E i \in Ops("Stop") : log[i].ret = Nil
    /\ \E t \in Threads : ret[t] = [op |-> "NextRequest", val |-> <<1, 1>>]
    /\ received = <<<<1, 1>>>>

\* C19. Independence of queue, flags and activity mark: no step of
\* SendRequest or NextRequest changes the started flag, the stopped flag,
\* the activity mark or the quit, pause and resume signals; SetActive changes
\* only the activity mark; IsActive, IsStarted, IsStopped and NumOfRequests
\* change nothing; SetStarted changes only the started flag and SetStopped
\* only the stopped flag.
StepOf(t) == pc'[t] # pc[t] \/ (mutex = 0 /\ mutex' = t)
In(t, labels) == StepOf(t) /\ (pc[t] \in labels \/ pc'[t] \in labels)
Signals == <<quit, pause, resume>>

Independence ==
    [][\A t \in Threads :
          /\ In(t, {"SendRequest", "NextRequest"}) =>
                UNCHANGED <<started, stopped, active, Signals>>
          /\ In(t, {"SetActive"}) =>
                UNCHANGED <<started, stopped, queue, Signals>>
          /\ In(t, {"IsActive", "IsStarted", "IsStopped", "NumOfRequests"}) =>
                UNCHANGED service
          /\ In(t, {"SetStarted", "OnStart_SetStarted"}) =>
                UNCHANGED <<stopped, queue, active, Signals>>
          /\ In(t, {"SetStopped", "OnStop_SetStopped"}) =>
                UNCHANGED <<started, queue, active, Signals>>]_vars

\* C19 witness: after SendRequest, SetStopped and SetActive the request is
\* still queued, the stopped flag is the only flag set, the mark is the time
\* of the SetActive call and no signal has fired.
IndependenceWitness ==
    /\ queue = <<<<1, 1>>>>
    /\ stopped /\ ~started
    /\ active = now
    /\ ~quit
    /\ \E t \in Threads : ret[t].op = "SetActive"
    /\ \E t \in Threads : ret[t].op = "SetStopped"

\* C20. A service that never recorded activity is inactive: while the
\* activity mark is the zero time of construction IsActive returns false,
\* and no step other than SetActive's (Start, Stop, Pause, Resume,
\* SendRequest and NextRequest included) moves the mark.
Marking(t) == pc[t] = "SetActive" /\ pc'[t] = "idle"

NeverActive ==
    [][/\ \A t \in Threads :
             (Reading(t) /\ active = ZeroTime) => ret'[t].val = FALSE
       /\ active' # active => \E t \in Threads : Marking(t)]_vars

\* C20 witness: IsActive returned false on a service that was stopped and
\* was sent a request, and never called SetActive.
NeverActiveWitness ==
    /\ active = ZeroTime
    /\ quit
    /\ sent # <<>>
    /\ \E t \in Threads : ret[t] = [op |-> "IsActive", val |-> FALSE]

====
